---------------------------- MODULE Spec2Model ----------------------------
(***************************************************************************)
(* Model of the summarization engine of universalAgent:                    *)
(*   app/utils/models/textsum_client.py  (text mode)                       *)
(*   app/utils/models/youtube_client.py  (transcript mode)                 *)
(*                                                                         *)
(* A Python str is modelled as a sequence of one-character strings, so     *)
(* that strip, split, re.sub, re.findall, lower and join are computed      *)
(* character by character as the interpreter computes them.                *)
(***************************************************************************)
EXTENDS Integers, Sequences, FiniteSets

VARIABLES
    op,                 \* the function the caller invoked
    pc,                 \* "called" before it runs, "returned" after
    text_content,       \* argument of summarize_text_content / clean_text_content
    youtube_url,        \* argument of summarize_youtube_video
    transcript,         \* what YouTubeTranscriptApi.get_transcript answers
    summary_length,     \* the length specifier argument
    cleaned_text,       \* local of summarize_text_content
    target_words,       \* local target_words / value returned by the resolvers
    sentences,          \* local of generate_summary_text / generate_summary_youtube
    selected,           \* local summary_sentences (text) / selected_sentences (youtube)
    selection_ran,      \* TRUE iff the generator went past both early returns
    result              \* the returned str

vars == <<op, pc, text_content, youtube_url, transcript, summary_length,
          cleaned_text, target_words, sentences, selected, selection_ran, result>>

(***************************************************************************)
(* Characters                                                              *)
(***************************************************************************)
UpperLetters == <<"A","B","C","D","E","F","G","H","I","J","K","L","M",
                  "N","O","P","Q","R","S","T","U","V","W","X","Y","Z">>
LowerLetters == <<"a","b","c","d","e","f","g","h","i","j","k","l","m",
                  "n","o","p","q","r","s","t","u","v","w","x","y","z">>
Digits == <<"0","1","2","3","4","5","6","7","8","9">>

Range(f) == {f[i] : i \in DOMAIN f}

\* str.isspace / regex \s on the ASCII characters
Whitespace == {" ", "\t", "\n", "\r", "\f"}
IsSpace(c) == c \in Whitespace
\* regex \d on the ASCII characters
DigitSet == Range(Digits)
IsDigit(c) == c \in DigitSet
\* regex \w on the ASCII characters
IsWordChar(c) == c \in Range(UpperLetters) \cup Range(LowerLetters) \cup Range(Digits) \cup {"_"}
\* the punctuation the cleaning regex keeps: \. \, \! \? \; \: \- \( \)
KeptPunctuation == {".", ",", "!", "?", ";", ":", "-", "(", ")"}
\* the delimiters of the sentence regex [.!?]
SentenceDelimiters == {".", "!", "?"}

DigitValue(c) == (CHOOSE i \in DOMAIN Digits : Digits[i] = c) - 1

LowerChar(c) ==
    IF c \in Range(UpperLetters)
    THEN LowerLetters[CHOOSE i \in DOMAIN UpperLetters : UpperLetters[i] = c]
    ELSE c

(***************************************************************************)
(* Python str primitives.  A value that is used more than once is passed   *)
(* on as an argument of a helper operator, which TLC evaluates once.       *)
(***************************************************************************)
Max(a, b) == IF a >= b THEN a ELSE b
Min(a, b) == IF a <= b THEN a ELSE b

Least(S) == CHOOSE i \in S : \A j \in S : i <= j
Greatest(S) == CHOOSE i \in S : \A j \in S : i >= j
LeastOr(S, default) == IF S = {} THEN default ELSE Least(S)
GreatestOr(S, default) == IF S = {} THEN default ELSE Greatest(S)

\* the indices of s whose character is in cls (inside) or outside it (~inside)
Hits(s, cls, inside) == {i \in DOMAIN s : (s[i] \in cls) = inside}
\* the first such index, Len(s) + 1 if none; the last one, 0 if none
FirstHit(s, cls, inside) == LeastOr(Hits(s, cls, inside), Len(s) + 1)
LastHit(s, cls, inside) == GreatestOr(Hits(s, cls, inside), 0)

Drop(s, k) == SubSeq(s, k + 1, Len(s))

\* str.lower()
Lower(s) == [i \in DOMAIN s |-> LowerChar(s[i])]

\* str.lstrip(), str.rstrip(), str.strip()
LStrip(s) == Drop(s, FirstHit(s, Whitespace, FALSE) - 1)
RStrip(s) == SubSeq(s, 1, LastHit(s, Whitespace, FALSE))
Strip(s) == RStrip(LStrip(s))

\* the longest prefix of s whose characters are all outside cls
SpanUntil(s, cls) == SubSeq(s, 1, FirstHit(s, cls, TRUE) - 1)

Indices(s) == [i \in DOMAIN s |-> i]

\* the maximal runs of characters of s that are in cls (inside) or outside it,
\* left to right
RunStarts(s, cls, inside) ==
    LET IsStart(i) == /\ (s[i] \in cls) = inside
                      /\ (i = 1 \/ (s[i - 1] \in cls) # inside)
    IN  SelectSeq(Indices(s), IsStart)
RunsAt(s, cls, inside, starts) ==
    [k \in DOMAIN starts |->
        SubSeq(s, starts[k], starts[k] - 2 + FirstHit(Drop(s, starts[k] - 1), cls, ~inside))]
Runs(s, cls, inside) == RunsAt(s, cls, inside, RunStarts(s, cls, inside))

\* str.split() with no argument: the maximal runs of non-whitespace
SplitWhitespace(s) == Runs(s, Whitespace, FALSE)

StartsWith(s, p) == Len(s) >= Len(p) /\ SubSeq(s, 1, Len(p)) = p
\* str.endswith
EndsWith(s, p) == Len(s) >= Len(p) /\ SubSeq(s, Len(s) - Len(p) + 1, Len(s)) = p

\* str.split(sep) for a literal sep no two occurrences of which can overlap
\* (as ". "): the pieces between the occurrences, empties kept
OccurrencesOf(s, sep) ==
    LET IsAt(i) == SubSeq(s, i, Min(Len(s), i + Len(sep) - 1)) = sep
    IN  SelectSeq(Indices(s), IsAt)
PiecesBetween(s, sep, at) ==
    [k \in 1..(Len(at) + 1) |->
        SubSeq(s, IF k = 1 THEN 1 ELSE at[k - 1] + Len(sep),
                  IF k = Len(at) + 1 THEN Len(s) ELSE at[k] - 1)]
SplitLiteral(s, sep) == PiecesBetween(s, sep, OccurrencesOf(s, sep))

\* sep.join(parts)
RECURSIVE Join(_, _)
Join(parts, sep) ==
    IF parts = <<>> THEN <<>>
    ELSE IF Len(parts) = 1 THEN parts[1]
    ELSE parts[1] \o sep \o Join(Tail(parts), sep)

\* re.sub(r'\s+', ' ', s): every maximal whitespace run becomes one space
CollapsedAt(s, kept) == [k \in DOMAIN kept |-> IF IsSpace(s[kept[k]]) THEN " " ELSE s[kept[k]]]
CollapseWhitespace(s) ==
    LET Kept(i) == ~IsSpace(s[i]) \/ i = 1 \/ ~IsSpace(s[i - 1])
    IN  CollapsedAt(s, SelectSeq(Indices(s), Kept))

\* re.sub(r'[^\w\s\.\,\!\?\;\:\-\(\)]', '', s)
RemoveSpecial(s) ==
    LET Kept(c) == IsWordChar(c) \/ IsSpace(c) \/ c \in KeptPunctuation
    IN  SelectSeq(s, Kept)

\* re.split(r'[.!?]+', s): the pieces between maximal delimiter runs; a delimiter
\* at either end of s leaves an empty piece there
ReSplitDelimiters(s) ==
    (IF s # <<>> /\ s[1] \in SentenceDelimiters THEN << <<>> >> ELSE <<>>)
    \o Runs(s, SentenceDelimiters, FALSE)
    \o (IF s = <<>> \/ s[Len(s)] \in SentenceDelimiters THEN << <<>> >> ELSE <<>>)

\* re.findall(r'\d+', s): the maximal digit runs, left to right
FindAllDigitRuns(s) == Runs(s, DigitSet, TRUE)

\* int(run) for a run of ASCII digits
RECURSIVE IntOfDigits(_)
IntOfDigits(run) ==
    IF run = <<>> THEN 0
    ELSE 10 * IntOfDigits(SubSeq(run, 1, Len(run) - 1)) + DigitValue(run[Len(run)])

(***************************************************************************)
(* String literals of the source                                           *)
(***************************************************************************)
ShortName  == <<"s","h","o","r","t">>
MediumName == <<"m","e","d","i","u","m">>
LongName   == <<"l","o","n","g">>
ErrorNoText == <<"E","r","r","o","r",":"," ","N","o"," ","t","e","x","t"," ",
                 "c","o","n","t","e","n","t"," ","p","r","o","v","i","d","e","d">>
ErrorInvalidUrl == <<"E","r","r","o","r",":"," ","I","n","v","a","l","i","d"," ",
                     "Y","o","u","T","u","b","e"," ","U","R","L">>
ErrorSummarizingVideo == <<"E","r","r","o","r"," ","s","u","m","m","a","r","i","z",
                           "i","n","g"," ","v","i","d","e","o",":"," ">>
\* str(IndexError) of a list subscript out of range
IndexErrorMessage == <<"l","i","s","t"," ","i","n","d","e","x"," ","o","u","t"," ",
                       "o","f"," ","r","a","n","g","e">>
WatchVPrefix == <<"y","o","u","t","u","b","e",".","c","o","m","/","w","a","t","c","h","?","v","=">>
ShortUrlPrefix == <<"y","o","u","t","u",".","b","e","/">>
EmbedPrefix == <<"y","o","u","t","u","b","e",".","c","o","m","/","e","m","b","e","d","/">>
WatchPrefix == <<"y","o","u","t","u","b","e",".","c","o","m","/","w","a","t","c","h","?">>
PeriodSpace == <<".", " ">>
Period == <<".">>
Space == <<" ">>

(***************************************************************************)
(* textsum_client.py                                                       *)
(***************************************************************************)
clean_text_content(raw) == RemoveSpecial(CollapseWhitespace(Strip(raw)))

LengthOf(lowered, numbers) ==
    IF lowered = ShortName THEN 75
    ELSE IF lowered = MediumName THEN 200
    ELSE IF lowered = LongName THEN 400
    ELSE IF numbers # <<>> THEN IntOfDigits(numbers[1])
    ELSE 200

parse_summary_length_text(length) == LengthOf(Lower(length), FindAllDigitRuns(length))

\* [s.strip() for s in sentences if s.strip()]
StripEach(pieces) == [i \in DOMAIN pieces |-> Strip(pieces[i])]
NonEmptyOnly(pieces) ==
    LET NonEmpty(x) == x # <<>>
    IN  SelectSeq(pieces, NonEmpty)

split_into_sentences(text) == NonEmptyOnly(StripEach(ReSplitDelimiters(text)))

\* Counter(word.lower() for word in words if len(word) > 3).get(w, 0)
WordFreq(words, w) == Cardinality({i \in DOMAIN words : Len(words[i]) > 3 /\ Lower(words[i]) = w})

RECURSIVE SumSeq(_)
SumSeq(xs) == IF xs = <<>> THEN 0 ELSE Head(xs) + SumSeq(Tail(xs))

\* freq_score = sum(word_freq.get(word, 0) for word in sentence_words)
FreqScore(sentence_words, words) ==
    SumSeq([k \in DOMAIN sentence_words |-> WordFreq(words, sentence_words[k])])

(***************************************************************************)
(* total_score = freq_score + position_bonus - length_penalty is computed  *)
(* in IEEE-754 doubles: fl(fl(f + fl(f * 0.2)) - fl(f * 0.3)), a term      *)
(* being the integer 0 when its condition fails.  A score is modelled as  *)
(* the pair <<tenths, rounding>>: tenths is ten times the exact decimal    *)
(* value (10f, 12f, 7f or 9f) and rounding is the double's distance from   *)
(* that value in units of 2^-51 / 10.  FloatRounding[f + 1] lists that     *)
(* distance for (no bonus, no penalty), (bonus), (penalty), (both); e.g.   *)
(* f = 3 with bonus is the double 3.6 and f = 4 with both is               *)
(* 3.5999999999999996: equal in exact arithmetic, different as doubles.   *)
(* Exact values differ by at least 0.1, so doubles compare as the pairs   *)
(* compare lexicographically.                                              *)
(***************************************************************************)
FloatRounding == <<
    <<0,0,0,0>>, <<0,-1,-1,-2>>, <<0,-2,-2,-4>>, <<0,2,2,4>>,
    <<0,-4,-4,-8>>, <<0,0,0,0>>, <<0,4,4,8>>, <<0,8,8,16>>,
    <<0,-8,-8,-16>>, <<0,16,16,32>>, <<0,0,0,0>>, <<0,-16,4,-32>>,
    <<0,8,8,16>>, <<0,-8,-8,-16>>, <<0,16,16,32>>, <<0,0,0,0>>,
    <<0,-16,-16,-32>>, <<0,-32,8,-24>>, <<0,32,32,64>>, <<0,16,16,32>>,
    <<0,0,0,0>>, <<0,-16,-16,-32>>, <<0,-32,8,-64>>, <<0,32,32,64>>,
    <<0,16,16,32>>, <<0,0,0,0>>, <<0,-16,-16,-32>>, <<0,-32,-32,-64>>,
    <<0,32,32,64>>, <<0,-64,16,-48>>, <<0,0,0,0>>, <<0,64,64,128>>,
    <<0,-32,-32,-64>>, <<0,32,32,64>>, <<0,-64,16,-48>>, <<0,0,0,0>>,
    <<0,64,64,128>>, <<0,-32,-32,-64>>, <<0,32,32,64>>, <<0,-64,16,-128>>,
    <<0,0,0,0>>, <<0,64,64,128>>, <<0,-32,-32,-64>>, <<0,32,32,64>>,
    <<0,-64,16,-128>>, <<0,0,0,0>>, <<0,64,64,128>>, <<0,-32,-32,-64>>,
    <<0,32,32,64>>, <<0,-64,-64,-128>>, <<0,0,0,0>>, <<0,64,64,128>>,
    <<0,-32,-32,-64>>, <<0,32,32,64>>, <<0,-64,-64,-128>>, <<0,0,0,0>>,
    <<0,64,64,128>>, <<0,128,128,256>>, <<0,-128,32,-96>>, <<0,-64,-64,-128>>,
    <<0,0,0,0>>
>>

ScoreOf(freq_score, has_bonus, has_penalty) ==
    << 10 * freq_score + (IF has_bonus THEN 2 * freq_score ELSE 0)
                       - (IF has_penalty THEN 3 * freq_score ELSE 0),
       FloatRounding[freq_score + 1][1 + (IF has_bonus THEN 1 ELSE 0)
                                       + (IF has_penalty THEN 2 ELSE 0)] >>

\* a > b on two scores
ScoreGreater(a, b) == a[1] > b[1] \/ (a[1] = b[1] /\ a[2] > b[2])

\* the body of the scoring loop for sentence i (1-based) of n
ScoreSentence(i, n, sentence_words, words) ==
    ScoreOf(FreqScore(sentence_words, words), i = 1 \/ i = n, Len(sentence_words) < 5)

score_sentences(sents, words) ==
    [i \in DOMAIN sents |->
        ScoreSentence(i, Len(sents), SplitWhitespace(Lower(sents[i])), words)]

(***************************************************************************)
(* max(1, int(target_words / (len(words) / len(sentences)))).  Both        *)
(* divisions are IEEE-754 double divisions; the quotient is truncated.     *)
(* The result is the exact floor(target_words * n / total) except on the   *)
(* triples of FloatQuotientLow, where the double quotient falls just below *)
(* an exact integer.  The triples <<total, sentences, target>> with         *)
(* target < total <= 45 and at most 45 sentences are listed; every one has *)
(* 14 or more sentences.                                                   *)
(***************************************************************************)
FloatQuotientLow ==
    { <<18,14,9>>, <<18,28,9>>, <<27,21,9>>, <<27,21,18>>, <<27,42,9>>,
      <<27,42,18>>, <<36,14,18>>, <<36,28,9>>, <<36,28,18>>, <<42,18,35>>,
      <<42,36,35>>, <<42,38,21>>, <<44,20,33>>, <<44,36,33>>, <<44,40,33>>,
      <<45,35,9>>, <<45,35,18>>, <<45,35,36>> }

TargetSentences(target, total_words, num_sentences) ==
    LET exact == (target * num_sentences) \div total_words
        quotient == IF <<total_words, num_sentences, target>> \in FloatQuotientLow
                    THEN exact - 1 ELSE exact
    IN  Max(1, quotient)

\* Mutant of SortedByScore: the list sorted ascending and then reversed, which
\* puts equal scores in reverse original order.
SortedByScore_TiesReversed(scores) ==
    LET Before(i, j) == ScoreGreater(scores[i], scores[j]) \/ (scores[i] = scores[j] /\ i > j)
        Position(i) == 1 + Cardinality({j \in DOMAIN scores : Before(j, i)})
    IN  [p \in DOMAIN scores |-> CHOOSE i \in DOMAIN scores : Position(i) = p]

\* the indices of the sentences in the order of
\* scored_sentences.sort(key=lambda x: x[1], reverse=True): descending score,
\* equal scores in their original order (list.sort is stable, also reversed)
SortedByScore(scores) ==
    LET Before(i, j) == ScoreGreater(scores[i], scores[j]) \/ (scores[i] = scores[j] /\ i < j)
        Position(i) == 1 + Cardinality({j \in DOMAIN scores : Before(j, i)})
    IN  [p \in DOMAIN scores |-> CHOOSE i \in DOMAIN scores : Position(i) = p]

\* selected_sentences = [sent for sent, score in scored_sentences[:target_sentences]],
\* as the set its membership test reads
SelectedSentences(sents, order, target_sentences) ==
    {sents[order[k]] : k \in 1..Min(target_sentences, Len(order))}

\* [sentence for sentence in sentences if sentence in selected_sentences]
SummarySentences(sents, selected_sentences) ==
    LET InSelected(x) == x \in selected_sentences
    IN  SelectSeq(sents, InSelected)

TextSummary(sents, summary_sentences) ==
    [summary |-> Join(summary_sentences, Space), sentences |-> sents,
     selected |-> summary_sentences, ran |-> TRUE]

\* Mutant of SelectAndReorder: the reordering loop left out, the selected
\* sentences joined in score order.
SelectAndReorder_ScoreOrder(sents, order, target_sentences) ==
    TextSummary(sents, [k \in 1..Min(target_sentences, Len(order)) |-> sents[order[k]]])

\* the top target_sentences of the sorted pairs, re-emitted in the order of sents
SelectAndReorder(sents, order, target_sentences) ==
    TextSummary(sents,
        SummarySentences(sents, SelectedSentences(sents, order, target_sentences)))

\* Mutant of SummaryOfSentences: the early return taken for fewer than 2
\* sentences instead of at most 2.
SummaryOfSentences_FewerThanTwo(text, target, sents, words) ==
    IF Len(sents) < 2 \/ Len(words) <= target
    THEN [summary |-> text, sentences |-> sents, selected |-> <<>>, ran |-> FALSE]
    ELSE SelectAndReorder(sents,
            SortedByScore(score_sentences(sents, words)),
            TargetSentences(target, Len(words), Len(sents)))

SummaryOfSentences(text, target, sents, words) ==
    IF Len(sents) <= 2 \/ Len(words) <= target
    THEN [summary |-> text, sentences |-> sents, selected |-> <<>>, ran |-> FALSE]
    ELSE SelectAndReorder(sents,
            SortedByScore(score_sentences(sents, words)),
            TargetSentences(target, Len(words), Len(sents)))

generate_summary_text(text, target) ==
    SummaryOfSentences(text, target, split_into_sentences(text), SplitWhitespace(text))

TextLocals(cleaned, target, g) ==
    [summary |-> g.summary, cleaned |-> cleaned, target |-> target,
     sentences |-> g.sentences, selected |-> g.selected, ran |-> g.ran]

SummarizeCleaned(cleaned, target) ==
    TextLocals(cleaned, target, generate_summary_text(cleaned, target))

\* the except branch is not modelled: no statement of the try block raises on
\* str arguments
summarize_text_content(text, length) ==
    IF text = <<>> \/ Strip(text) = <<>>
    THEN [summary |-> ErrorNoText, cleaned |-> <<>>, target |-> -1,
          sentences |-> <<>>, selected |-> <<>>, ran |-> FALSE]
    ELSE SummarizeCleaned(clean_text_content(text), parse_summary_length_text(length))

(***************************************************************************)
(* youtube_client.py                                                       *)
(***************************************************************************)
\* the capture group ([^&\n?#]+), greedy, at the start of s (<<>>: no match)
VideoIdCapture(s) == SpanUntil(s, {"&", "\n", "?", "#"})

\* the group captured after prefix at the start of here, <<>> if that fails
CaptureAfter(here, prefix) ==
    IF StartsWith(here, prefix) THEN VideoIdCapture(Drop(here, Len(prefix))) ELSE <<>>

FirstNonEmpty(a, b, c) == IF a # <<>> THEN a ELSE IF b # <<>> THEN b ELSE c

\* (?:youtube\.com/watch\?v=|youtu\.be/|youtube\.com/embed/)([^&\n?#]+) matched at
\* the start of here
DirectPatternAt(here) ==
    FirstNonEmpty(CaptureAfter(here, WatchVPrefix),
                  CaptureAfter(here, ShortUrlPrefix),
                  CaptureAfter(here, EmbedPrefix))

\* the group after the last "v=" that the greedy .* can reach on its line and that
\* is followed by a non-empty group
GroupAfterLast(tail, skips) ==
    IF skips = {} THEN <<>> ELSE VideoIdCapture(Drop(tail, Greatest(skips) + 2))

QuerySkips(tail, line_length) ==
    {k \in 0..line_length : /\ StartsWith(Drop(tail, k), <<"v", "=">>)
                            /\ VideoIdCapture(Drop(tail, k + 2)) # <<>>}

QueryTail(tail) == GroupAfterLast(tail, QuerySkips(tail, FirstHit(tail, {"\n"}, TRUE) - 1))

\* youtube\.com/watch\?.*v=([^&\n?#]+) matched at the start of here
QueryPatternAt(here) ==
    IF StartsWith(here, WatchPrefix) THEN QueryTail(Drop(here, Len(WatchPrefix))) ELSE <<>>

\* re.search: the group of the match at the leftmost position that has one
GroupAtFirst(groups, hits) == IF hits = {} THEN <<>> ELSE groups[Least(hits)]
FirstGroup(groups) == GroupAtFirst(groups, {i \in DOMAIN groups : groups[i] # <<>>})

SearchDirect(url) == FirstGroup([i \in DOMAIN url |-> DirectPatternAt(Drop(url, i - 1))])
SearchQuery(url) == FirstGroup([i \in DOMAIN url |-> QueryPatternAt(Drop(url, i - 1))])

\* the video id, or <<>> for None (a match's group is never empty)
extract_video_id_youtube(url) == FirstNonEmpty(SearchDirect(url), SearchQuery(url), <<>>)

parse_summary_length_youtube(length) == LengthOf(Lower(length), FindAllDigitRuns(length))

\* Mutant of SampleStep: the quotient rounded up instead of down.
SampleStep_RoundUp(num_sentences, target_sentences) ==
    (num_sentences + target_sentences - 1) \div target_sentences

\* step = len(sentences) // target_sentences
SampleStep(num_sentences, target_sentences) == num_sentences \div target_sentences

\* Mutant of EndProperly: the period appended without the endswith test.
EndProperly_Always(joined) == joined \o Period

\* summary = '. '.join(selected_sentences), with '.' appended unless it ends with one
EndProperly(joined) == IF EndsWith(joined, Period) THEN joined ELSE joined \o Period

YoutubeSummary(sents, selected_sentences) ==
    [summary |-> EndProperly(Join(selected_sentences, PeriodSpace)), sentences |-> sents,
     selected |-> selected_sentences, ran |-> TRUE, raised |-> FALSE]

\* [sentences[i * step] for i in range(target_sentences)]; raised: a subscript
\* was out of range (IndexError)
SampleSentences(sents, target_sentences, step) ==
    IF \E i \in 0..(target_sentences - 1) : i * step >= Len(sents)
    THEN [summary |-> <<>>, sentences |-> sents, selected |-> <<>>,
          ran |-> TRUE, raised |-> TRUE]
    ELSE YoutubeSummary(sents, [k \in 1..target_sentences |-> sents[(k - 1) * step + 1]])

SelectSentences(sents, target_sentences) ==
    IF Len(sents) > target_sentences
    THEN SampleSentences(sents, target_sentences, SampleStep(Len(sents), target_sentences))
    ELSE YoutubeSummary(sents, SubSeq(sents, 1, Min(target_sentences, Len(sents))))

YoutubeSummaryOfSentences(text, target, sents, words) ==
    IF Len(sents) <= 3 \/ Len(words) <= target
    THEN [summary |-> text, sentences |-> sents, selected |-> <<>>,
          ran |-> FALSE, raised |-> FALSE]
    ELSE SelectSentences(sents, TargetSentences(target, Len(words), Len(sents)))

generate_summary_youtube(text, target) ==
    YoutubeSummaryOfSentences(text, target, SplitLiteral(text, PeriodSpace), SplitWhitespace(text))

\* an exception of the try block becomes "Error summarizing video: " + str(e)
YoutubeLocals(target, g) ==
    IF g.raised
    THEN [summary |-> ErrorSummarizingVideo \o IndexErrorMessage, cleaned |-> <<>>,
          target |-> target, sentences |-> g.sentences, selected |-> <<>>, ran |-> TRUE]
    ELSE [summary |-> g.summary, cleaned |-> <<>>, target |-> target,
          sentences |-> g.sentences, selected |-> g.selected, ran |-> g.ran]

SummarizeTranscript(full_text, target) ==
    YoutubeLocals(target, generate_summary_youtube(full_text, target))

YoutubeUnset(summary) ==
    [summary |-> summary, cleaned |-> <<>>, target |-> -1, sentences |-> <<>>,
     selected |-> <<>>, ran |-> FALSE]

\* answer: what get_transcript does, [raised, message, entries]
summarize_youtube_video(url, length, answer) ==
    IF extract_video_id_youtube(url) = <<>>
    THEN YoutubeUnset(ErrorInvalidUrl)
    ELSE IF answer.raised
    THEN YoutubeUnset(ErrorSummarizingVideo \o answer.message)
    ELSE SummarizeTranscript(Join(answer.entries, Space), parse_summary_length_youtube(length))

(***************************************************************************)
(* Inputs                                                                  *)
(***************************************************************************)
MaxRawLen == 4          \* longest raw text given to clean_text_content
MaxHandlerRawLen == 3   \* longest raw text given to summarize_text_content
MaxSentences == 4       \* most pool sentences in a structured text
MaxEntries == 10        \* most caption entries in a transcript
MaxBlankEntries == 2    \* most entries in a transcript of blank captions
MaxSpecLen == 4         \* longest length specifier enumerated character by character
MaxPad == 1             \* most characters put before and after a length name

\* all sequences over alphabet of length at most n
SeqsUpTo(alphabet, n) == UNION {[1..k -> alphabet] : k \in 0..n}

RawAlphabet == {"a", " ", "\t", "@", "."}
RawTexts == SeqsUpTo(RawAlphabet, MaxRawLen)

SentencePool == {
    <<"d","a","t","a"," ","d","a","t","a"," ","x",".">>,
    <<"D","a","t","a"," ","y","!">>,
    <<"a"," ","b"," ","c"," ","d"," ","e","?">>,
    <<"d","a","t","a"," ","a"," ","b"," ","c"," ","c","o","d","e",".">>,
    <<"x"," ","d","a","t","a">>
}
StructuredTexts ==
    {Join(ss, Space) : ss \in SeqsUpTo(SentencePool, MaxSentences) \ {<<>>}}

\* 14 pairwise distinct sentences, 18 words: with a target of 9 words the double
\* quotient 9 / (18 / 14) is 6.999999999999999
FourteenSentences == <<
    "d","a","t","a"," ","a","."," ","D","a","t","a","."," ","D","A",
    "T","A","."," ","d","A","t","a","."," ","d","a","T","a","."," ",
    "d","a","t","A","."," ","D","A","t","a","."," ","D","a","T","a",
    "."," ","b"," ","c","."," ","d"," ","e","."," ","f"," ","g",".",
    " ","h","."," ","i","."," ","j","."
>>

TextInputs ==
    SeqsUpTo(RawAlphabet, MaxHandlerRawLen) \cup StructuredTexts \cup {FourteenSentences}

SpecAlphabet == {"0", "1", "7", "x", " "}
LengthNames == {
    <<"s","h","o","r","t">>,
    <<"S","H","O","R","T">>,
    <<"S","h","o","r","t">>,
    <<"m","e","d","i","u","m">>,
    <<"M","e","d","i","u","m">>,
    <<"l","o","n","g">>,
    <<"L","O","N","G">>
}
PaddedNames ==
    {pre \o name \o post : pre \in SeqsUpTo({" ", "1"}, MaxPad),
                           name \in LengthNames,
                           post \in SeqsUpTo({" ", "1"}, MaxPad)}
LengthSpecs == SeqsUpTo(SpecAlphabet, MaxSpecLen) \cup PaddedNames

\* the length specifiers given to the two entry operations
LengthChoices == {
    <<"l","o","n","g">>,
    <<"0">>,
    <<"1">>,
    <<"3">>,
    <<"4">>,
    <<"6">>,
    <<"9">>
}

EntryPool == {<<"a", ".">>, <<"b", " ", "c", ".", ".">>}
BlankEntryPool == {<<>>, <<" ">>}
TranscriptEntries ==
    SeqsUpTo(EntryPool, MaxEntries) \cup SeqsUpTo(BlankEntryPool, MaxBlankEntries)
Fetched(entries) == [raised |-> FALSE, message |-> <<>>, entries |-> entries]
\* get_transcript raising (no captions, network): str(e) is the library's text
FetchFailed == [raised |-> TRUE, message |-> <<"n", "o", " ", "t", "r", "a", "n", "s", "c", "r", "i", "p", "t">>,
                entries |-> <<>>]

ValidUrl == <<"y","o","u","t","u",".","b","e","/","x">>
Urls == {
    <<"y","o","u","t","u",".","b","e","/","x">>,
    <<"y","o","u","t","u","b","e",".","c","o","m","/","w","a","t","c","h","?","a","=","1","&","v","=","x">>,
    <<"y","o","u","t","u",".","b","e","/">>,
    <<"x">>
}

NoAnswer == [raised |-> FALSE, message |-> <<>>, entries |-> <<>>]

(***************************************************************************)
(* State machine: one call of one function, from "called" to "returned"    *)
(***************************************************************************)
Unset ==
    /\ cleaned_text = <<>>
    /\ target_words = -1
    /\ sentences = <<>>
    /\ selected = <<>>
    /\ selection_ran = FALSE
    /\ result = <<>>

InitText ==
    /\ op = "summarize_text_content"
    /\ pc = "called"
    /\ text_content \in TextInputs
    /\ summary_length \in LengthChoices
    /\ youtube_url = <<>>
    /\ transcript = NoAnswer
    /\ Unset

InitYoutube ==
    /\ op = "summarize_youtube_video"
    /\ pc = "called"
    /\ text_content = <<>>
    /\ \/ /\ youtube_url = ValidUrl
          /\ transcript \in {Fetched(e) : e \in TranscriptEntries}
          /\ summary_length \in LengthChoices
       \/ /\ youtube_url \in Urls
          /\ transcript \in {FetchFailed} \cup {Fetched(e) : e \in SeqsUpTo(EntryPool, 1)}
          /\ summary_length = LongName
    /\ Unset

InitLength ==
    /\ op \in {"parse_summary_length_text", "parse_summary_length_youtube"}
    /\ pc = "called"
    /\ summary_length \in LengthSpecs
    /\ text_content = <<>>
    /\ youtube_url = <<>>
    /\ transcript = NoAnswer
    /\ Unset

InitClean ==
    /\ op = "clean_text_content"
    /\ pc = "called"
    /\ text_content \in RawTexts
    /\ summary_length = <<>>
    /\ youtube_url = <<>>
    /\ transcript = NoAnswer
    /\ Unset

Init == InitText \/ InitYoutube

\* the call returns: its locals and its value become visible
ReturnLocals(r) ==
    /\ cleaned_text' = r.cleaned
    /\ target_words' = r.target
    /\ sentences' = r.sentences
    /\ selected' = r.selected
    /\ selection_ran' = r.ran
    /\ result' = r.summary
    /\ pc' = "returned"

SummarizeTextContent ==
    /\ op = "summarize_text_content"
    /\ pc = "called"
    /\ ReturnLocals(summarize_text_content(text_content, summary_length))
    /\ UNCHANGED <<op, text_content, youtube_url, transcript, summary_length>>

SummarizeYoutubeVideo ==
    /\ op = "summarize_youtube_video"
    /\ pc = "called"
    /\ ReturnLocals(summarize_youtube_video(youtube_url, summary_length, transcript))
    /\ UNCHANGED <<op, text_content, youtube_url, transcript, summary_length>>

ParseSummaryLengthText ==
    /\ op = "parse_summary_length_text"
    /\ pc = "called"
    /\ target_words' = parse_summary_length_text(summary_length)
    /\ pc' = "returned"
    /\ UNCHANGED <<op, text_content, youtube_url, transcript, summary_length,
                   cleaned_text, sentences, selected, selection_ran, result>>

ParseSummaryLengthYoutube ==
    /\ op = "parse_summary_length_youtube"
    /\ pc = "called"
    /\ target_words' = parse_summary_length_youtube(summary_length)
    /\ pc' = "returned"
    /\ UNCHANGED <<op, text_content, youtube_url, transcript, summary_length,
                   cleaned_text, sentences, selected, selection_ran, result>>

CleanTextContent ==
    /\ op = "clean_text_content"
    /\ pc = "called"
    /\ result' = clean_text_content(text_content)
    /\ pc' = "returned"
    /\ UNCHANGED <<op, text_content, youtube_url, transcript, summary_length,
                   cleaned_text, target_words, sentences, selected, selection_ran>>

Next == SummarizeTextContent \/ SummarizeYoutubeVideo
NextText == SummarizeTextContent
NextYoutube == SummarizeYoutubeVideo
NextLength == ParseSummaryLengthText \/ ParseSummaryLengthYoutube
NextClean == CleanTextContent

Spec == Init /\ [][Next]_vars
SpecText == InitText /\ [][NextText]_vars
SpecYoutube == InitYoutube /\ [][NextYoutube]_vars
SpecLength == InitLength /\ [][NextLength]_vars
SpecClean == InitClean /\ [][NextClean]_vars

(***************************************************************************)
(* Properties                                                              *)
(***************************************************************************)
TextReturned == op = "summarize_text_content" /\ pc = "returned"
YoutubeReturned == op = "summarize_youtube_video" /\ pc = "returned"
\* the transcript was fetched for a URL that holds a video id
TranscriptFetched == extract_video_id_youtube(youtube_url) # <<>> /\ ~transcript.raised
FullText == Join(transcript.entries, Space)

\* empty or whitespace only
Blank(s) == \A i \in DOMAIN s : IsSpace(s[i])
IsErrorString(s) == StartsWith(s, <<"E", "r", "r", "o", "r">>)
WordCount(s) == Len(SplitWhitespace(s))
Distinct(seq) == \A i, j \in DOMAIN seq : seq[i] = seq[j] => i = j

\* C1: for every empty or whitespace-only input and every length specifier both
\* entry operations return an error string: text mode exactly "Error: No text
\* content provided", transcript mode an error string rather than the blank text.
C1_BlankInputGivesError ==
    /\ (TextReturned /\ Blank(text_content)) => result = ErrorNoText
    /\ (YoutubeReturned /\ TranscriptFetched /\ Blank(FullText)) => IsErrorString(result)

\* C2: whenever sentence selection runs, in either mode, the summary has at most
\* target_words whitespace-separated words.
C2_SummaryWithinTarget ==
    (pc = "returned" /\ selection_ran /\ op \in {"summarize_text_content", "summarize_youtube_video"})
        => WordCount(result) <= target_words

\* C3: the length resolvers return a strictly positive integer for every input
\* string.
C3_LengthPositive ==
    pc = "returned" => target_words > 0

\* the longest prefix of s whose characters are all in cls
SpanWhile(s, cls) == SubSeq(s, 1, FirstHit(s, cls, FALSE) - 1)

\* the reference of C4: trim, compare ignoring case with the three names, else
\* the first maximal digit run, else 200
ReferenceLength(length) ==
    LET name == Lower(Strip(length))
        first_digit == FirstHit(length, DigitSet, TRUE)
    IN  IF name = ShortName THEN 75
        ELSE IF name = MediumName THEN 200
        ELSE IF name = LongName THEN 400
        ELSE IF first_digit <= Len(length)
        THEN IntOfDigits(SpanWhile(Drop(length, first_digit - 1), DigitSet))
        ELSE 200

\* C4: both length resolvers agree with the reference for every input string:
\* trimmed and case-insensitive names (" short " is 75), else the first maximal
\* digit run, else 200.
C4_ResolverMatchesReference ==
    pc = "returned" => target_words = ReferenceLength(summary_length)

\* cleaned has at most 2 sentences or at most target words
IsShort(cleaned, target) ==
    Len(split_into_sentences(cleaned)) <= 2 \/ WordCount(cleaned) <= target

ReturnsIfShort(cleaned, target) == IsShort(cleaned, target) => result = cleaned

\* C5: for a non-blank text whose cleaned form has at most 2 sentences, or at
\* most target_words words, summarize_text_content returns exactly the cleaned
\* text.
C5_ShortCircuitReturnsCleaned ==
    (TextReturned /\ ~Blank(text_content))
        => ReturnsIfShort(clean_text_content(text_content),
                          parse_summary_length_text(summary_length))

\* a text of 2 sentences and more words than the target, returned as cleaned,
\* where joining its sentences again would give another string
C5_Witness ==
    /\ TextReturned
    /\ Len(sentences) = 2
    /\ WordCount(cleaned_text) > target_words
    /\ result = cleaned_text
    /\ result # Join(sentences, Space)

\* the elements of seq at the indices of S, in increasing index order
ElementsAt(seq, indices) == [k \in DOMAIN indices |-> seq[indices[k]]]
SubsequenceAt(seq, S) ==
    LET InS(i) == i \in S
    IN  ElementsAt(seq, SelectSeq(Indices(seq), InS))

\* C6: whenever text-mode selection runs, the summary is a subsequence of the
\* source sentences (increasing original index) joined by single spaces.
C6_OutputInDocumentOrder ==
    (TextReturned /\ selection_ran)
        => \E S \in SUBSET DOMAIN sentences : result = Join(SubsequenceAt(sentences, S), Space)

SentenceScores == score_sentences(sentences, SplitWhitespace(cleaned_text))
\* the indices of the emitted sentences
Chosen == {i \in DOMAIN sentences : \E k \in DOMAIN selected : selected[k] = sentences[i]}

LaterScoredHigher(scores, chosen) ==
    \E i, j \in chosen : i < j /\ ScoreGreater(scores[j], scores[i])

\* two sentences are emitted of which the later one scored higher
C6_Witness ==
    /\ TextReturned
    /\ selection_ran
    /\ LaterScoredHigher(SentenceScores, Chosen)

\* the amended C7: transcript-mode sampling stays in range.  Whenever selection
\* runs there are more sentences than target_sentence_count, the largest sampled
\* index step * (target_sentence_count - 1) is below the sentence count, one
\* sentence per sample is selected and no IndexError is reported.
C7_SamplingInRange ==
    (YoutubeReturned /\ selection_ran)
        => LET n == Len(sentences)
               t == TargetSentences(target_words, WordCount(FullText), n)
           IN  /\ n > t
               /\ SampleStep(n, t) * (t - 1) < n
               /\ Len(selected) = t
               /\ result # ErrorSummarizingVideo \o IndexErrorMessage

\* sampling with a step of 2 or more whose last index is as large as it gets,
\* the sentence count less the step
C7_Witness ==
    /\ YoutubeReturned
    /\ selection_ran
    /\ Len(selected) >= 2
    /\ Len(sentences) \div Len(selected) >= 2
    /\ (Len(sentences) \div Len(selected)) * Len(selected) = Len(sentences)

MaxPairSentences == 40  \* most sentences of a pair tried for C7
MaxPairWords == 40      \* most words of a pair tried for C7

\* the pairs <<num_sentences, target_sentence_count>>, of all sentence counts,
\* word counts and smaller targets up to the bounds, whose largest sampled index
\* reaches num_sentences
FailingPairs ==
    {<<n, TargetSentences(target, total, n)>> :
        <<n, total, target>> \in
            {p \in (1..MaxPairSentences) \X (1..MaxPairWords) \X (0..MaxPairWords) :
                /\ p[3] < p[2]
                /\ p[1] > TargetSentences(p[3], p[2], p[1])
                /\ SampleStep(p[1], TargetSentences(p[3], p[2], p[1]))
                       * (TargetSentences(p[3], p[2], p[1]) - 1) >= p[1]}}

\* C7 as claimed: a call of the transcript summarizer can meet a pair
\* (num_sentences, target_sentence_count), num_sentences > target_sentence_count,
\* for which step * (target_sentence_count - 1) >= num_sentences.
C7_IndexOutOfRangeReachable ==
    op = "summarize_youtube_video" => FailingPairs # {}

\* C8: the result of clean_text_content has no run of two or more whitespace
\* characters and no leading or trailing whitespace, and cleaning it again
\* changes nothing.
C8_WhitespaceNormalForm ==
    (op = "clean_text_content" /\ pc = "returned")
        => /\ \A i \in 1..(Len(result) - 1) : ~(IsSpace(result[i]) /\ IsSpace(result[i + 1]))
           /\ result = <<>> \/ (~IsSpace(result[1]) /\ ~IsSpace(result[Len(result)]))
           /\ clean_text_content(result) = result

\* C9: whenever transcript-mode selection runs (more than 3 sentences split on
\* ". ", more words than the target) with n sentences and target sentence count
\* t < n, the selected sentences are those at indices 0, step, ..., (t-1)*step
\* with step = floor(n / t), in that order (n=10, t=3: [0,3,6]; n=7, t=4:
\* [0,1,2,3]); the summary is their join with ". ", with "." appended only if it
\* does not end with one.
C9_EvenSampling ==
    (/\ YoutubeReturned
     /\ TranscriptFetched
     /\ Len(SplitLiteral(FullText, PeriodSpace)) > 3
     /\ WordCount(FullText) > target_words)
        => LET n == Len(sentences)
               t == Len(selected)
               step == n \div t
               picks == [k \in 1..t |-> sentences[(k - 1) * step + 1]]
               joined == Join(picks, PeriodSpace)
           IN  /\ selection_ran
               /\ sentences = SplitLiteral(FullText, PeriodSpace)
               /\ t = TargetSentences(target_words, WordCount(FullText), n)
               /\ t < n
               /\ selected = picks
               /\ (n = 10 /\ t = 3) => selected = <<sentences[1], sentences[4], sentences[7]>>
               /\ (n = 7 /\ t = 4)
                      => selected = <<sentences[1], sentences[2], sentences[3], sentences[4]>>
               /\ result = IF joined # <<>> /\ joined[Len(joined)] = "."
                           THEN joined ELSE joined \o <<".">>

\* 10 sentences sampled at indices 0, 3, 6, the last of which already ends with
\* a period
C9_Witness ==
    /\ YoutubeReturned
    /\ selection_ran
    /\ Len(sentences) = 10
    /\ selected = <<sentences[1], sentences[4], sentences[7]>>
    /\ result = Join(selected, PeriodSpace)

\* chosen are the t best of scores: each chosen index beats each other index by
\* score, or ties with it and comes first
TopOf(scores, chosen, t) ==
    /\ Cardinality(chosen) = t
    /\ \A i \in chosen : \A j \in DOMAIN scores \ chosen :
           \/ ScoreGreater(scores[i], scores[j])
           \/ (scores[i] = scores[j] /\ i < j)

\* the amended C10: whenever text-mode selection runs on pairwise distinct
\* sentences, the summary holds exactly target_sentence_count sentences, where
\* target_sentence_count = max(1, int(target_words / (total_words /
\* num_sentences))) with both divisions in IEEE-754 doubles (one less than the
\* exact floor where the double quotient falls just below an integer); they are
\* the highest scoring ones, a tie at the cut-off going to the lower original
\* index.
C10_TopKSelection ==
    (TextReturned /\ selection_ran /\ Distinct(sentences))
        => /\ Len(selected) = TargetSentences(target_words, WordCount(cleaned_text), Len(sentences))
           /\ TopOf(SentenceScores, Chosen, Len(selected))

\* C10 as claimed: the summary holds exactly max(1, floor(target_words /
\* (total_words / num_sentences))) sentences, the highest scoring ones, a tie at
\* the cut-off going to the lower original index.
C10_TopKExactFloor ==
    (TextReturned /\ selection_ran /\ Distinct(sentences))
        => /\ Len(selected) = Max(1, (target_words * Len(sentences)) \div WordCount(cleaned_text))
           /\ TopOf(SentenceScores, Chosen, Len(selected))

TieAtCutOff(scores, chosen) ==
    \E i \in chosen : \E j \in DOMAIN scores \ chosen : scores[i] = scores[j] /\ scores[i][1] > 0

\* distinct sentences, fewer of them emitted than the exact floor, of which one
\* is emitted and a later one with the same non-zero score is not
C10_Witness ==
    /\ TextReturned
    /\ selection_ran
    /\ Distinct(sentences)
    /\ Len(selected) < (target_words * Len(sentences)) \div WordCount(cleaned_text)
    /\ TieAtCutOff(SentenceScores, Chosen)

=============================================================================
